---- MODULE Spec2Model ----
(***************************************************************************)
(* Model of installRpackages.py: the package-installation orchestrator     *)
(* (installPackage and its strategies), the failure-ledger lookup, the     *)
(* outcome log and the migration workflow driven by main().                *)
(*                                                                         *)
(* A Python str is a finite sequence of symbols.  A symbol is either a     *)
(* single character the program inspects (":", "<", " ", "\n", a digit) or *)
(* a fragment of text the program never looks inside ("multicross",        *)
(* "/Giotto", a literal of an f-string).  The empty str is << >>.          *)
(*                                                                         *)
(* A Python function that runs external tools is an operator that takes    *)
(* the world w (libraries, build directory, working-directory files, trace *)
(* of the running installPackage call) and yields the SET of its possible  *)
(* outcomes [w, exc, ret]: the world afterwards, the exception raised      *)
(* (NoExc when it returned) and the value returned.                        *)
(***************************************************************************)
EXTENDS Integers, Sequences, FiniteSets, TLC

\* ------------------------------------------------------------------ bounds
\* how many entries of the seed list (taken from its end) a migration installs
MaxSeeds == 2
\* how many entries of git_pkgs (taken from its start) a migration installs
MaxGit == 1

\* ------------------------------------------------------- Python semantics
\* None: a reserved symbol sequence no modelled str is equal to
None == <<"None">>
NoExc == "NoExc"

\* bool(x) for x a str or None
Truthy(x) == x # None /\ x # << >>

\* x or y
PyOr(x, y) == IF Truthy(x) THEN x ELSE y

Whitespace == {" ", "\n", "\r", "\t"}

RECURSIVE lstrip(_)
lstrip(s) == IF s # << >> /\ Head(s) \in Whitespace THEN lstrip(Tail(s)) ELSE s

RECURSIVE rstrip(_)
rstrip(s) ==
    IF s # << >> /\ s[Len(s)] \in Whitespace THEN rstrip(SubSeq(s, 1, Len(s) - 1)) ELSE s

\* str.strip()
strip(s) == rstrip(lstrip(s))

\* str.startswith / str.endswith
startswith(s, prefix) == Len(s) >= Len(prefix) /\ SubSeq(s, 1, Len(prefix)) = prefix
endswith(s, suffix) ==
    Len(s) >= Len(suffix) /\ SubSeq(s, Len(s) - Len(suffix) + 1, Len(s)) = suffix

\* outcomes of a call
Ok(w, ret) == [w |-> w, exc |-> NoExc, ret |-> ret]
Raise(w, e) == [w |-> w, exc |-> e, ret |-> None]

\* ------------------------------------------------------------- the world
\* module versions of R on the cluster; the two defaults of parse_arguments
VNewDefault == <<"4.5.0">>
VOldDefault == <<"4.4.2">>
Versions == {VNewDefault, VOldDefault}

\* the seed list and the version-control-hosted packages of migrateVersions
SeedList ==
    << <<"ggforce">>, <<"terra">>, <<"pak">>, <<"remotes">>, <<"multicross">>,
       <<"drieslab", "/", "Giotto">> >>
GitList ==
    << << <<"SeuratData">>, <<"satijalab/seurat-data">> >>,
       << <<"SeuratDisk">>, <<"mojaveazure/seurat-disk">> >>,
       << <<"SeuratWrappers">>, <<"satijalab/seurat-wrappers">> >>,
       << <<"CellChat">>, <<"jinworks/CellChat">> >>,
       << <<"monocle3">>, <<"cole-trapnell-lab/monocle3">> >>,
       << <<"presto">>, <<"immunogenomics/presto">> >>,
       << <<"proteoDA">>, <<"ByrumLab/proteoDA">> >>,
       << <<"rbokeh">>, <<"hafen/rbokeh">> >>,
       << <<"SCENIC">>, <<"aertslab/SCENIC">> >>,
       << <<"SCopeLoomR">>, <<"aertslab/SCopeLoomR">> >>,
       << <<"velocyto.R">>, <<"velocyto-team/velocyto.R">> >>,
       << <<"SCPA">>, <<"jackbibby1/SCPA">> >> >>

Min(a, b) == IF a < b THEN a ELSE b
Seeds == SubSeq(SeedList, Len(SeedList) - Min(MaxSeeds, Len(SeedList)) + 1, Len(SeedList))
GitPkgs == SubSeq(GitList, 1, Min(MaxGit, Len(GitList)))

Range(s) == {s[i] : i \in DOMAIN s}

\* events of the trace of one installPackage call
Strategies ==
    {"installWithRscript", "installWithTarball", "installBiocManager",
     "installFromGitHub", "installGiotto"}
Ev(fn, ev, success, msg) == [fn |-> fn, ev |-> ev, success |-> success, msg |-> msg]
Log(w, e) == [w EXCEPT !.trace = Append(@, e)]
Called(w, fn) == Log(w, Ev(fn, "call", FALSE, << >>))
\* a function returning [success, msg]
Returned(w, fn, success, msg) == Ok(Log(w, Ev(fn, "return", success, msg)), <<success, msg>>)
Raised(w, fn, e) == Raise(Log(w, Ev(fn, "raise", FALSE, << >>)), e)

\* --------------------------------------------------------------- runRcmd
\* the R expression handed to Rscript -e: the R function called, its
\* argument as written in the expression, and the package it is about
Rexpr(fn, arg, pkg) == [fn |-> fn, arg |-> arg, pkg |-> pkg]

ExitCodes == {0, 1}

\* Rscript -e r_expr under "module load R/<r_version>": what the process may
\* do to the world and the exit code it ends with
Rscript(w, r_version, r_expr) ==
    CASE r_expr.fn = "requireNamespace" ->
            \* quit(status = if (requireNamespace(pkg)) 0 else 1)
            {[w |-> w, rc |-> IF r_expr.pkg \in w.load[r_version] THEN 0 ELSE 1]}
      [] r_expr.fn = "download.packages" ->
            \* the source archive lands in destdir, or does not
            {[w |-> [w EXCEPT !.builds[r_version] =
                        IF got THEN @ \cup {r_expr.pkg} ELSE @],
              rc |-> rc] : got \in BOOLEAN, rc \in ExitCodes}
      [] OTHER ->
            \* an installer: afterwards the package's directory exists or
            \* not, and its namespace loads or not, whatever the exit code
            {[w |-> [w EXCEPT !.lib[r_version] =
                              IF dir THEN @ \cup {r_expr.pkg} ELSE @ \ {r_expr.pkg},
                           !.load[r_version] =
                              IF ld THEN @ \cup {r_expr.pkg} ELSE @ \ {r_expr.pkg}],
              rc |-> rc] : dir \in BOOLEAN, ld \in BOOLEAN, rc \in ExitCodes}

\* subprocess.run without capture_output: stderr and stdout are None
runRcmd(w, r_version, r_expr) ==
    { Ok(Log(p.w, Ev("runRcmd", r_expr.fn, p.rc = 0, << >>)), <<p.rc, None, None>>)
        : p \in Rscript(w, r_version, r_expr) }

\* ----------------------------------------------------------- isInstalled
\* the probe that asks the runtime only when the directory is there
isInstalled_lazy(w, r_version, package) ==
    IF package \notin w.lib[r_version] THEN Ok(w, FALSE)
    ELSE LET run == CHOOSE r \in runRcmd(w, r_version,
                                         Rexpr("requireNamespace", package, package)) : TRUE
         IN  Ok(run.w, run.ret[1] = 0)

isInstalled(w, r_version, package) ==
    LET dir_exists == package \in w.lib[r_version]
        run == CHOOSE r \in runRcmd(w, r_version,
                                    Rexpr("requireNamespace", package, package)) : TRUE
        can_be_loaded == (run.ret[1] = 0)
    IN  Ok(run.w, dir_exists /\ can_be_loaded)

\* ------------------------------------------------------------ strategies
\* f"{x}": a str as it is, bytes as their repr
Formatted(x, bytes) == IF bytes THEN <<"b'">> \o x \o <<"'">> ELSE x

\* the failure branch shared by the strategies:
\*     err = (stderr or stdout).strip()
\*     if err: return [False, f"{withError}{err}"]
\*     else:   return [False, f"{withCode}{returncode} (no output captured)"]
\* bytes tells whether the streams are bytes (captured) rather than str
reportFailure(w, fn, stderr, stdout, returncode, withError, withCode, bytes) ==
    IF PyOr(stderr, stdout) = None
    THEN Raised(w, fn, "AttributeError")
    ELSE LET err == strip(PyOr(stderr, stdout))
         IN  IF err # << >>
             THEN Returned(w, fn, FALSE, withError \o Formatted(err, bytes))
             ELSE Returned(w, fn, FALSE,
                           withCode \o <<ToString(returncode)>> \o <<" (no output captured)">>)


installWithRscript(w, r_version, package) ==
    { LET returncode == run.ret[1]
          stderr == run.ret[2]
          stdout == run.ret[3]
          probe == isInstalled(run.w, r_version, package)
      IN  IF returncode # 0
          THEN reportFailure(run.w, "installWithRscript", stderr, stdout, returncode,
                             <<"Installation using Rscript failed with error: ">>,
                             <<"Installation using Rscript failed with return code ">>,
                             FALSE)
          ELSE IF ~probe.ret
          THEN reportFailure(probe.w, "installWithRscript", stderr, stdout, returncode,
                             <<"Installation using Rscript failed with error: ">>,
                             <<"Installation using Rscript failed with return code ">>,
                             FALSE)
          ELSE Returned(probe.w, "installWithRscript", TRUE,
                        <<"Successfully installed in R/">> \o r_version \o <<" with Rscript">>)
      : run \in runRcmd(Called(w, "installWithRscript"), r_version,
                        Rexpr("install.packages", package, package)) }

\* what R CMD INSTALL, run with capture_output=True, may leave on a stream
CapturedStreams == { << >>, <<"\n">>, <<"ERROR: compilation failed", "\n">> }

\* bash -lc "module load <r_version> && R CMD INSTALL <tarball>", captured
RcmdInstall(w, r_version, package) ==
    { [w |-> Log(p.w, Ev("subprocess.run", "R CMD INSTALL", p.rc = 0, << >>)),
       returncode |-> p.rc, stderr |-> e, stdout |-> o]
        : p \in Rscript(w, r_version, Rexpr("R CMD INSTALL", package, package)),
          e \in CapturedStreams, o \in CapturedStreams }

installWithTarball_build(w, r_version, package) ==
    { LET probe == isInstalled(result.w, r_version, package)
      IN  IF result.returncode # 0
          THEN reportFailure(result.w, "installWithTarball", result.stderr, result.stdout,
                             result.returncode,
                             <<"Installation using tarball failed with error: ">>,
                             <<"Installation tarball Rscript failed with return code ">>,
                             TRUE)
          ELSE IF ~probe.ret
          THEN reportFailure(probe.w, "installWithTarball", result.stderr, result.stdout,
                             result.returncode,
                             <<"Installation using tarball failed with error: ">>,
                             <<"Installation tarball Rscript failed with return code ">>,
                             TRUE)
          ELSE Returned(probe.w, "installWithTarball", TRUE,
                        <<"Successfully installed in R/">> \o r_version \o <<" with tarball">>)
      : result \in RcmdInstall(w, r_version, package) }

installWithTarball(w, r_version, package) ==
    UNION { IF run.ret[1] # 0
            THEN { Returned(run.w, "installWithTarball", FALSE,
                            <<"Could not download latest tarball for ">> \o package
                               \o <<" from cran.r-project.org">>) }
            ELSE IF package \notin run.w.builds[r_version]
            THEN { Returned(run.w, "installWithTarball", FALSE,
                            <<"No tarball found for ">> \o package) }
            ELSE installWithTarball_build(run.w, r_version, package)
          : run \in runRcmd(Called(w, "installWithTarball"), r_version,
                            Rexpr("download.packages", package, package)) }

GitHubTools == <<"remotes", "devtools">>

\* the loop of installFromGitHub from its i-th tool on, and what follows it
RECURSIVE installFromGitHub_loop(_, _, _, _, _, _, _)
installFromGitHub_loop(w, r_version, repo, pkg, i, msg, err) ==
    IF i > Len(GitHubTools)
    THEN IF msg # << >>
         THEN { Returned(w, "installFromGitHub", FALSE,
                         <<"Installation using GitHub failed with error: ">> \o err) }
         ELSE { Returned(w, "installFromGitHub", FALSE,
                         <<"Installation using GitHub failed (no output captured)">>) }
    ELSE UNION {
           LET opt == GitHubTools[i]
               returncode == run.ret[1]
               stderr == run.ret[2]
               stdout == run.ret[3]
               probe == isInstalled(run.w, r_version, pkg)
               w1 == IF returncode = 0 THEN probe.w ELSE run.w
           IN  IF returncode = 0 /\ probe.ret
               THEN { Returned(probe.w, "installFromGitHub", TRUE,
                               <<"Successfully installed in R/">> \o r_version
                                  \o <<" with GitHub ">> \o <<opt>>) }
               ELSE IF PyOr(stderr, stdout) = None
               THEN { Raised(w1, "installFromGitHub", "AttributeError") }
               ELSE IF strip(PyOr(stderr, stdout)) # << >>
               \* ",".join(msg, err): str.join takes exactly one argument
               THEN { Raised(w1, "installFromGitHub", "TypeError") }
               ELSE installFromGitHub_loop(w1, r_version, repo, pkg, i + 1, msg,
                                           strip(PyOr(stderr, stdout)))
           : run \in runRcmd(w, r_version,
                             Rexpr(GitHubTools[i] \o "::install_github", repo, pkg)) }

installFromGitHub(w, r_version, repo, pkg) ==
    installFromGitHub_loop(Called(w, "installFromGitHub"), r_version, repo, pkg, 1,
                           << >>, None)

installGiotto(w, r_version, giotto) ==
    { LET returncode == run.ret[1]
          stderr == run.ret[2]
          stdout == run.ret[3]
          probe == isInstalled(run.w, r_version, giotto)
      IN  IF returncode # 0
          THEN reportFailure(run.w, "installGiotto", stderr, stdout, returncode,
                             <<"Installation using Giotto failed with error: ">>,
                             <<"Installation using Giotto failed with return code ">>,
                             FALSE)
          ELSE IF ~probe.ret
          THEN reportFailure(probe.w, "installGiotto", stderr, stdout, returncode,
                             <<"Installation using Giotto failed with error: ">>,
                             <<"Installation using Giotto failed with return code ">>,
                             FALSE)
          ELSE Returned(probe.w, "installGiotto", TRUE,
                        <<"Successfully installed in R/">> \o r_version \o <<" with Giotto">>)
      : run \in runRcmd(Called(w, "installGiotto"), r_version,
                        Rexpr("pak::pkg_install", giotto, giotto)) }

installBiocManager(w, r_version, package) ==
    { LET returncode == run.ret[1]
          stderr == run.ret[2]
          stdout == run.ret[3]
          probe == isInstalled(run.w, r_version, package)
      IN  IF returncode # 0
          THEN reportFailure(run.w, "installBiocManager", stderr, stdout, returncode,
                             <<"Installation using Bioconductor failed with error: ">>,
                             <<"Installation using Bioconductor failed with return code ">>,
                             FALSE)
          ELSE IF ~probe.ret
          THEN reportFailure(probe.w, "installBiocManager", stderr, stdout, returncode,
                             <<"Installation using Bioconductor failed with error: ">>,
                             <<"Installation using Bioconductor failed with return code ">>,
                             FALSE)
          ELSE Returned(probe.w, "installBiocManager", TRUE,
                        <<"Successfully installed in R/">> \o r_version
                           \o <<" with Bioconductor">>)
      : run \in runRcmd(Called(w, "installBiocManager"), r_version,
                        Rexpr("BiocManager::install", package, package)) }

\* ---------------------------------------------------------- the ledger
LedgerFile == <<"fail.txt">>

\* grep -F: the lines that contain pat
Contains(line, pat) ==
    \E i \in 0..(Len(line) - Len(pat)) : SubSeq(line, i + 1, i + Len(pat)) = pat

RECURSIVE SelectLines(_, _)
SelectLines(lines, pat) ==
    IF lines = << >> THEN << >>
    ELSE IF Contains(Head(lines), pat)
         THEN <<Head(lines)>> \o SelectLines(Tail(lines), pat)
         ELSE SelectLines(Tail(lines), pat)

\* cut -d: -f1: the line up to its first ":" (the whole line when it has none)
RECURSIVE cutField1(_)
cutField1(line) ==
    IF line = << >> \/ Head(line) = ":" THEN << >>
    ELSE <<Head(line)>> \o cutField1(Tail(line))

\* what "grep -F <package> fail.txt | head -n 1 | cut -d: -f1" prints
ledgerPipeline(lines, package) ==
    LET hits == SelectLines(lines, package)
    IN  IF hits = << >> THEN << >> ELSE cutField1(Head(hits)) \o <<"\n">>

\* CompletedProcess.stdout: what the command printed when the run captures
\* its output, None when it does not
CompletedStdout(printed, captured) == IF captured THEN printed ELSE None

\* subprocess.run(cmd, shell=True, check=False).stdout: nothing is captured
hadFailed_stdout(lines, package) == CompletedStdout(ledgerPipeline(lines, package), FALSE)

hadFailed(w, package) ==
    LET w0 == Called(w, "hadFailed")
    IN  IF LedgerFile \notin DOMAIN w0.files
        THEN Ok(w0, FALSE)
        ELSE LET out == hadFailed_stdout(w0.files[LedgerFile], package)
             IN  IF out = None THEN Ok(w0, FALSE)
                 ELSE Ok(w0, strip(out) = package)

\* -------------------------------------------------------- installPackage
\* the chain going on to the source archive whatever direct-install reported
installPackage_chain_eager(w, r_version, package) ==
    UNION {
      IF r1.exc # NoExc THEN {r1}
      ELSE installWithTarball(r1.w, r_version, package)
      : r1 \in installWithRscript(w, r_version, package) }

\* lines 185-194: the ordinary chain.  ", ".join(msg, msg2) and
\* ", ".join(msg, msg2, msg3) pass str.join more than one argument: TypeError
installPackage_chain(w, r_version, package) ==
    UNION {
      IF r1.exc # NoExc THEN {r1}
      ELSE IF r1.ret[1] THEN {Ok(r1.w, r1.ret)}
      ELSE UNION {
             IF r2.exc # NoExc THEN {r2}
             ELSE IF r2.ret[1] THEN {Raise(r2.w, "TypeError")}
             ELSE UNION {
                    IF r3.exc # NoExc THEN {r3}
                    ELSE {Raise(r3.w, "TypeError")}
                    : r3 \in installBiocManager(r2.w, r_version, package) }
             : r2 \in installWithTarball(r1.w, r_version, package) }
      : r1 \in installWithRscript(w, r_version, package) }

\* the dispatch without the branch of lines 182-183
installPackage_dispatch_ordinary(w, r_version, package, gitRepo) ==
    IF Truthy(gitRepo)
    THEN installFromGitHub(w, r_version, gitRepo, package)
    ELSE installPackage_chain(w, r_version, package)

\* the dispatch going on to the ordinary chain when the repository-hosted
\* install did not succeed
installPackage_dispatch_fallthrough(w, r_version, package, gitRepo) ==
    IF Truthy(gitRepo)
    THEN UNION { IF r.exc = NoExc /\ r.ret[1] THEN {r}
                 ELSE installPackage_chain(r.w, r_version, package)
                 : r \in installFromGitHub(w, r_version, gitRepo, package) }
    ELSE IF endswith(package, <<"/", "Giotto">>)
    THEN installGiotto(w, r_version, package)
    ELSE installPackage_chain(w, r_version, package)

\* the dispatch testing the specialized suffix before the locator
installPackage_dispatch_suffixfirst(w, r_version, package, gitRepo) ==
    IF endswith(package, <<"/", "Giotto">>)
    THEN installGiotto(w, r_version, package)
    ELSE IF Truthy(gitRepo)
    THEN installFromGitHub(w, r_version, gitRepo, package)
    ELSE installPackage_chain(w, r_version, package)

\* lines 179-194
installPackage_dispatch(w, r_version, package, gitRepo) ==
    IF Truthy(gitRepo)
    THEN installFromGitHub(w, r_version, gitRepo, package)
    ELSE IF endswith(package, <<"/", "Giotto">>)
    THEN installGiotto(w, r_version, package)
    ELSE installPackage_chain(w, r_version, package)

\* lines 175-194: hadFailed is evaluated only when check_pastFail is true
installPackage_ledger(w, r_version, package, check_pastFail, gitRepo) ==
    LET past == hadFailed(w, package)
    IN  IF check_pastFail /\ past.ret
        THEN {Ok(past.w, <<FALSE, << >> >>)}
        ELSE installPackage_dispatch(IF check_pastFail THEN past.w ELSE w,
                                     r_version, package, gitRepo)

\* installPackage without the short-circuit of lines 171-173
installPackage_reinstalls(w, r_version, package, check_pastFail, gitRepo) ==
    installPackage_ledger(isInstalled(w, r_version, package).w, r_version, package,
                          check_pastFail, gitRepo)

installPackage(w, r_version, package, check_pastFail, gitRepo) ==
    LET probe == isInstalled(w, r_version, package)
    IN  IF probe.ret
        THEN {Ok(probe.w, <<TRUE, << >> >>)}
        ELSE installPackage_ledger(probe.w, r_version, package, check_pastFail, gitRepo)

\* ------------------------------------------------------- the outcome log
\* date.today().strftime("%Y_%m_%d"): the day of the run
Today == "2026_01_15"

RECURSIVE rstripNewline(_)
\* str.rstrip("\r\n")
rstripNewline(s) ==
    IF s # << >> /\ s[Len(s)] \in {"\r", "\n"}
    THEN rstripNewline(SubSeq(s, 1, Len(s) - 1)) ELSE s

\* open(name, "a").write(line): a file is the sequence of its lines
AppendLine(files, name, line) ==
    IF name \in DOMAIN files
    THEN [files EXCEPT ![name] = Append(@, line)]
    ELSE (name :> <<line>>) @@ files

saveInstallAttempt(w, success, message) ==
    LET today == Today
        line == rstripNewline(message)
        filename == <<IF success THEN "success" ELSE "failed", "_", today, ".txt">>
    IN  [w EXCEPT !.files = AppendLine(@, filename, line)]

\* ------------------------------------------------------- the inventories
\* str.casefold of the names a library directory may hold, as their rank in
\* the order sorted(..., key=str.casefold) gives them
casefoldRank(item) ==
    CASE item[1] = "00LOCK" -> 1
      [] item[1] = "drieslab" -> 2
      [] item[1] = "ggplot2" -> 3
      [] item[1] = "multicross" -> 4
      [] item[1] = "SeuratData" -> 5
      [] item[1] = "SeuratDisk" -> 6
      [] item[1] = "survival" -> 7
      [] OTHER -> 8

RECURSIVE sortedCasefold(_)
sortedCasefold(items) ==
    IF items = {} THEN << >>
    ELSE LET first == CHOOSE x \in items : \A y \in items : casefoldRank(x) <= casefoldRank(y)
         IN  <<first>> \o sortedCasefold(items \ {first})

\* the entry of the library directory a package directory shows as: the
\* path up to its first "/"
RECURSIVE pathHead(_)
pathHead(package) ==
    IF package = << >> \/ Head(package) = "/" THEN << >>
    ELSE <<Head(package)>> \o pathHead(Tail(package))

\* os.listdir(f"/hpc/apps/R/{r_version}/lib64/R/library/")
listdir(w, r_version) == {pathHead(p) : p \in w.lib[r_version]}

RECURSIVE SelectSeq2(_, _)
SelectSeq2(items, lock) ==
    IF items = << >> THEN << >>
    ELSE IF startswith(Head(items), lock) THEN SelectSeq2(Tail(items), lock)
         ELSE <<Head(items)>> \o SelectSeq2(Tail(items), lock)

savePackageList(w, r_version) ==
    LET items == sortedCasefold(listdir(w, r_version))
        written == SelectSeq2(items, <<"00LOCK">>)
    IN  [w EXCEPT !.files = ((r_version \o <<".txt">>) :> written) @@ @]

DiffFile == <<"missing.txt">>

RECURSIVE grepFvx(_, _)
\* grep -Fvx -f patterns input: the lines of input equal to no line of patterns
grepFvx(patterns, input) ==
    IF input = << >> THEN << >>
    ELSE IF \E i \in DOMAIN patterns : patterns[i] = Head(input)
         THEN grepFvx(patterns, Tail(input))
         ELSE <<Head(input)>> \o grepFvx(patterns, Tail(input))

\* open("missing.txt", "w") and grep -Fvx -f v_old v_new with stdout to it:
\* grep is given the version strings themselves as file names, and prints
\* nothing when a file of that name is missing
comparePackages(w, v_new, v_old) ==
    LET out == IF v_old \in DOMAIN w.files /\ v_new \in DOMAIN w.files
               THEN grepFvx(w.files[v_old], w.files[v_new])
               ELSE << >>
    IN  [w EXCEPT !.files = (DiffFile :> out) @@ @]

\* ------------------------------------------------------------ the sweep
RECURSIVE replaceNewline(_)
\* line.replace("\n", "")
replaceNewline(s) ==
    IF s = << >> THEN << >>
    ELSE IF Head(s) = "\n" THEN replaceNewline(Tail(s))
         ELSE <<Head(s)>> \o replaceNewline(Tail(s))

RECURSIVE replaceMarker(_)
\* line.replace("> ", "")
replaceMarker(s) ==
    IF s = << >> THEN << >>
    ELSE IF startswith(s, <<">", " ">>) THEN replaceMarker(SubSeq(s, 3, Len(s)))
         ELSE <<Head(s)>> \o replaceMarker(Tail(s))

\* str.isdigit() of the first character of a symbol
DigitLeading == {"0", "1", "2", "3", "4", "5", "6", "7", "8", "9", "00LOCK"}

\* ---------------------------------------------------------- the program
VARIABLES
    pc,       \* where main() is: start, migrate, seeds, git, sweep, adhoc, done, crashed
    args,     \* what parse_arguments returned
    idx,      \* position of the running loop of migrateVersions
    lib,      \* lib[v]: the package directories under /hpc/apps/R/<v>/lib64/R/library
    load,     \* load[v]: the packages requireNamespace finds under module R/<v>
    builds,   \* builds[v]: the packages with an archive in /adminfs/builds/R-<v>/packages
    files,    \* the files of the working directory: name -> lines
    trace,    \* the events of the latest installPackage call
    last,     \* the latest installPackage call: its arguments and how it ended
    calls,    \* the installPackage calls made so far: <<site, package>>
    exc       \* the exception that ended the run, NoExc when none

vars == <<pc, args, idx, lib, load, builds, files, trace, last, calls, exc>>

World == [lib |-> lib, load |-> load, builds |-> builds, files |-> files, trace |-> trace]
\* the world at the start of an installPackage call
Fresh == [World EXCEPT !.trace = << >>]

SetWorld(w) ==
    /\ lib' = w.lib
    /\ load' = w.load
    /\ builds' = w.builds
    /\ files' = w.files
    /\ trace' = w.trace

\* the ledger holds an entry "<package>: ..."
LedgerHas(fs, package) ==
    /\ LedgerFile \in DOMAIN fs
    /\ \E i \in DOMAIN fs[LedgerFile] : startswith(fs[LedgerFile][i], package \o <<":">>)

Probe(w, r_version, package) == package \in w.lib[r_version] /\ package \in w.load[r_version]

\* the record of an installPackage call that ended as r
CallRecord(site, r_version, package, check_pastFail, gitRepo, r) ==
    [site |-> site, r_version |-> r_version, package |-> package,
     check_pastFail |-> check_pastFail, gitRepo |-> gitRepo,
     wasInstalled |-> Probe(World, r_version, package),
     inLedger |-> LedgerHas(files, package),
     isInstalled |-> Probe(r.w, r_version, package),
     exc |-> r.exc, ret |-> r.ret]

NoCall ==
    [site |-> "none", r_version |-> None, package |-> None, check_pastFail |-> FALSE,
     gitRepo |-> None, wasInstalled |-> FALSE, inLedger |-> FALSE, isInstalled |-> FALSE,
     exc |-> NoExc, ret |-> None]

\* ---- parse_arguments
ArgNew == {None, VNewDefault}
ArgOld == {None, VOldDefault}
Survival == <<"survival">>
Ggplot2 == <<"ggplot2">>
Giotto == <<"drieslab", "/", "Giotto">>
GiottoPkg == <<"drieslab", "/", "Giotto", "_pkg">>
ArgInstall == {None, Survival, Giotto, GiottoPkg}
ArgRepo == {None, <<"org/repo">>}

parse_arguments(vnew, vold, migrate, install, git_repo) ==
    [v_new |-> PyOr(vnew, VNewDefault), v_old |-> PyOr(vold, VOldDefault),
     migrate |-> migrate, pkg_install |-> install, git_repo |-> git_repo]

\* main, lines 255-260: where main goes once the migration is over
AfterMigrate(a) == IF Truthy(a.pkg_install) THEN "adhoc" ELSE "done"

ParseArguments ==
    /\ pc = "start"
    /\ \E vnew \in ArgNew, vold \in ArgOld, migrate \in BOOLEAN,
          install \in ArgInstall, git_repo \in ArgRepo :
          /\ args' = parse_arguments(vnew, vold, migrate, install, git_repo)
          /\ pc' = IF migrate THEN "migrate" ELSE AfterMigrate(args')
    /\ UNCHANGED <<idx, lib, load, builds, files, trace, last, calls, exc>>

\* ---- migrateVersions, lines 203-211
migrateVersions_inventory(w, v_new, v_old) ==
    comparePackages(savePackageList(savePackageList(w, v_new), v_old), v_new, v_old)

MigrateInventory ==
    /\ pc = "migrate"
    /\ SetWorld(migrateVersions_inventory(World, args.v_new, args.v_old))
    /\ pc' = "seeds"
    /\ idx' = 1
    /\ UNCHANGED <<args, last, calls, exc>>

\* the loop that follows the git loop opens missing.txt and reads it line by line
AfterGit(fs, a) == IF fs[DiffFile] = << >> THEN AfterMigrate(a) ELSE "sweep"

\* ---- lines 214-217: one turn of the loop over the seed list
migrateVersions_logged(r, name) ==
    IF r.ret[2] # << >>
    THEN saveInstallAttempt(r.w, r.ret[1], name \o <<":", " ">> \o r.ret[2])
    ELSE r.w

SeedInstall ==
    /\ pc = "seeds"
    /\ LET dep == Seeds[idx] IN
       \E r \in installPackage(Fresh, args.v_new, dep, TRUE, None) :
          /\ last' = CallRecord("seed", args.v_new, dep, TRUE, None, r)
          /\ calls' = Append(calls, <<"seed", dep>>)
          /\ exc' = r.exc
          /\ IF r.exc # NoExc
             THEN /\ SetWorld(r.w)
                  /\ pc' = "crashed"
                  /\ idx' = idx
             ELSE /\ SetWorld(migrateVersions_logged(r, dep))
                  /\ pc' = IF idx < Len(Seeds) THEN "seeds" ELSE "git"
                  /\ idx' = IF idx < Len(Seeds) THEN idx + 1 ELSE 1
    /\ UNCHANGED args

\* ---- lines 234-237: one turn of the loop over git_pkgs
GitInstall ==
    /\ pc = "git"
    /\ LET pkg == GitPkgs[idx][1]
           repo == GitPkgs[idx][2]
       IN
       \E r \in installPackage(Fresh, args.v_new, pkg, TRUE, repo) :
          /\ last' = CallRecord("git", args.v_new, pkg, TRUE, repo, r)
          /\ calls' = Append(calls, <<"git", pkg>>)
          /\ exc' = r.exc
          /\ IF r.exc # NoExc
             THEN /\ SetWorld(r.w)
                  /\ pc' = "crashed"
                  /\ idx' = idx
             ELSE /\ SetWorld(migrateVersions_logged(r, pkg))
                  /\ pc' = IF idx < Len(GitPkgs) THEN "git" ELSE AfterGit(r.w.files, args)
                  /\ idx' = IF idx < Len(GitPkgs) THEN idx + 1 ELSE 1
    /\ UNCHANGED args

\* ---- lines 240-246: one turn of the loop over the lines of missing.txt
SweepNext == IF idx < Len(files[DiffFile]) THEN "sweep" ELSE AfterMigrate(args)

SweepLine ==
    /\ pc = "sweep"
    /\ LET line == replaceMarker(replaceNewline(files[DiffFile][idx] \o <<"\n">>)) IN
       IF line = << >>
       THEN \* line[0] of an empty str
            /\ exc' = "IndexError"
            /\ pc' = "crashed"
            /\ UNCHANGED <<idx, lib, load, builds, files, trace, last, calls>>
       ELSE IF startswith(line, <<"<">>) \/ line[1] \in DigitLeading
       THEN /\ pc' = SweepNext
            /\ idx' = idx + 1
            /\ UNCHANGED <<lib, load, builds, files, trace, last, calls, exc>>
       ELSE \E r \in installPackage(Fresh, args.v_new, line, TRUE, None) :
               /\ last' = CallRecord("sweep", args.v_new, line, TRUE, None, r)
               /\ calls' = Append(calls, <<"sweep", line>>)
               /\ exc' = r.exc
               /\ SetWorld(r.w)
               /\ pc' = IF r.exc # NoExc THEN "crashed" ELSE SweepNext
               /\ idx' = IF r.exc # NoExc THEN idx ELSE idx + 1
    /\ UNCHANGED args

\* ---- main, lines 255-260
\* main leaving check_pastFail at its default
main_install_default(w, v_new, pkg_install, git_repo) ==
    IF ~Truthy(git_repo)
    THEN installPackage(w, v_new, pkg_install, TRUE, None)
    ELSE installPackage(w, v_new, pkg_install, TRUE, git_repo)

main_install(w, v_new, pkg_install, git_repo) ==
    IF ~Truthy(git_repo)
    THEN installPackage(w, v_new, pkg_install, FALSE, None)
    ELSE installPackage(w, v_new, pkg_install, FALSE, git_repo)

AdhocInstall ==
    /\ pc = "adhoc"
    /\ \E r \in main_install(Fresh, args.v_new, args.pkg_install, args.git_repo) :
          /\ last' = CallRecord("adhoc", args.v_new, args.pkg_install, FALSE,
                                IF Truthy(args.git_repo) THEN args.git_repo ELSE None, r)
          /\ calls' = Append(calls, <<"adhoc", args.pkg_install>>)
          /\ exc' = r.exc
          /\ SetWorld(r.w)
          /\ pc' = IF r.exc # NoExc THEN "crashed" ELSE "done"
    /\ UNCHANGED <<args, idx>>

\* ---- the states main() may start in
\* names a library directory may hold besides the seed and git packages
LockDir == <<"00LOCK", "-survival">>
InventoryNames == {Ggplot2, Survival}
\* the new library holds ggplot2 and any of the other packages; the old one
\* holds the inventory packages, with or without a lock directory, or nothing
NewLibraries ==
    { {Ggplot2} \cup some :
        some \in SUBSET ({Survival} \cup Range(Seeds) \cup {GitPkgs[i][1] : i \in DOMAIN GitPkgs}) }
OldLibraries == { {}, InventoryNames, InventoryNames \cup {LockDir} }

\* fail.txt as an earlier run or the operator may have left it
Ledgers ==
    { << <<"survival", ":", " ", "no tarball">> >>,
      << <<"survival", "ROC", ":", " ", "failed">>, <<"multicross", ":", " ", "failed">> >> }

\* files named like the versions themselves, which only the operator can
\* have put in the working directory
\* (as <<the file named v_new, the file named v_old>>)
StaleLists ==
    { << <<Ggplot2, Survival>>, <<Ggplot2>> >>,
      << <<Ggplot2>>, <<Ggplot2, Survival>> >>,
      << << <<"<", " ", "ggplot2">>, <<"2">>, <<">", " ", "survival">>, << >> >>, <<Ggplot2>> >> }

\* a file that may be missing: << >> when it is, <<content>> when it is there
Optional(contents) == {<< >>} \cup {<<c>> : c \in contents}

NoArgs == parse_arguments(None, None, FALSE, None, None)

Init ==
    /\ pc = "start"
    /\ args = NoArgs
    /\ idx = 0
    /\ \E new \in NewLibraries, old \in OldLibraries :
          lib = (VNewDefault :> new) @@ (VOldDefault :> old)
    /\ \E odd \in {"none", "broken", "stray"} :
          load = [v \in Versions |->
                    CASE odd = "none" -> lib[v]
                      [] odd = "broken" -> lib[v] \ {Survival}
                      [] odd = "stray" -> lib[v] \cup {Survival}]
    /\ builds = [v \in Versions |-> {}]
    /\ \E ledger \in Optional(Ledgers), stale \in Optional(StaleLists) :
          files = (IF ledger = << >> THEN << >> ELSE (LedgerFile :> ledger[1]))
                  @@ (IF stale = << >> THEN << >>
                      ELSE (VNewDefault :> stale[1][1]) @@ (VOldDefault :> stale[1][2]))
    /\ trace = << >>
    /\ last = NoCall
    /\ calls = << >>
    /\ exc = NoExc

Next ==
    \/ ParseArguments
    \/ MigrateInventory
    \/ SeedInstall
    \/ GitInstall
    \/ SweepLine
    \/ AdhocInstall

Spec == Init /\ [][Next]_vars

\* ---- each strategy called on its own, from any of the states above
StrategyCall(site, outcomes, package, gitRepo) ==
    /\ pc = "start"
    /\ \E r \in outcomes :
          /\ last' = CallRecord(site, VNewDefault, package, FALSE, gitRepo, r)
          /\ calls' = Append(calls, <<site, package>>)
          /\ exc' = r.exc
          /\ SetWorld(r.w)
          /\ pc' = IF r.exc # NoExc THEN "crashed" ELSE "done"
    /\ UNCHANGED <<args, idx>>

CallRscript ==
    StrategyCall("installWithRscript", installWithRscript(Fresh, VNewDefault, Survival),
                 Survival, None)
\* the build directory may hold an archive that an earlier run downloaded
CallTarball ==
    \E kept \in SUBSET {Survival} :
        StrategyCall("installWithTarball",
                     installWithTarball([Fresh EXCEPT !.builds[VNewDefault] = kept],
                                        VNewDefault, Survival),
                     Survival, None)
CallBiocManager ==
    StrategyCall("installBiocManager", installBiocManager(Fresh, VNewDefault, Survival),
                 Survival, None)
CallFromGitHub ==
    StrategyCall("installFromGitHub",
                 installFromGitHub(Fresh, VNewDefault, GitPkgs[1][2], GitPkgs[1][1]),
                 GitPkgs[1][1], GitPkgs[1][2])
CallGiotto ==
    StrategyCall("installGiotto",
                 installGiotto(Fresh, VNewDefault, SeedList[Len(SeedList)]),
                 SeedList[Len(SeedList)], None)

NextStrategy ==
    \/ CallRscript
    \/ CallTarball
    \/ CallBiocManager
    \/ CallFromGitHub
    \/ CallGiotto

SpecStrategy == Init /\ [][NextStrategy]_vars

\* ------------------------------------------------------------ properties
\* an installPackage call has been made; last and trace describe the latest
CallMade == last.site # "none"

\* the strategies the latest installPackage call invoked
Invoked == {trace[i].fn : i \in {j \in DOMAIN trace : trace[j].ev = "call"}} \cap Strategies

\* the latest installPackage call evaluated hadFailed
LedgerConsulted == \E i \in DOMAIN trace : trace[i].fn = "hadFailed"

\* strategy fn reported success in the latest call
Succeeded(fn) ==
    \E i \in DOMAIN trace : trace[i].fn = fn /\ trace[i].ev = "return" /\ trace[i].success

\* Rscript ran the R function rfn in the latest call
Ran(rfn) == \E i \in DOMAIN trace : trace[i].fn = "runRcmd" /\ trace[i].ev = rfn

\* the latest call passed both checks and took the ordinary chain
OrdinaryCall ==
    /\ CallMade
    /\ ~last.wasInstalled
    /\ ~Truthy(last.gitRepo)
    /\ ~endswith(last.package, <<"/", "Giotto">>)

\* C1 (idempotence): a call of installPackage for a package that isInstalled
\* finds installed returns [True, ""], invokes no strategy and does not
\* consult the ledger, whatever check_pastFail and gitRepo are.
C1_Idempotence ==
    (CallMade /\ last.wasInstalled) =>
        /\ last.exc = NoExc
        /\ last.ret = <<TRUE, << >> >>
        /\ Invoked = {}
        /\ ~LedgerConsulted

\* C1 witness: an installed package whose name the ledger lists was passed to
\* installPackage with the ledger check enabled
C1_Witness == CallMade /\ last.wasInstalled /\ last.check_pastFail /\ last.inLedger

\* C2 (ledger gating): a call with check_pastFail=True for a package that is
\* not installed and has a ledger entry "P: ..." returns [False, ""] and
\* invokes no strategy.
C2_LedgerGating ==
    (CallMade /\ ~last.wasInstalled /\ last.inLedger /\ last.check_pastFail) =>
        /\ last.exc = NoExc
        /\ last.ret = <<FALSE, << >> >>
        /\ Invoked = {}

\* C3 (ledger bypass): the ad-hoc install of main never consults the ledger,
\* and for a package that is not installed it reaches strategy dispatch
\* whatever the ledger holds.
C3_LedgerBypass ==
    (CallMade /\ last.site = "adhoc") =>
        /\ ~LedgerConsulted
        /\ ~last.wasInstalled => Invoked # {}

\* C3 witness: an ad-hoc install of a package that is not installed and that
\* the ledger lists went on to a strategy
C3_Witness ==
    CallMade /\ last.site = "adhoc" /\ ~last.wasInstalled /\ last.inLedger /\ Invoked # {}

\* C4 (fallback ordering): in an ordinary call whose direct-install did not
\* succeed, the source-archive install is tried next, and when that succeeds
\* the call returns success with the source-archive confirmation alone and
\* never invokes the managed-repository install.
C4_FallbackOrdering ==
    (OrdinaryCall /\ "installWithRscript" \in Invoked /\ ~Succeeded("installWithRscript")) =>
        /\ last.exc = NoExc
        /\ "installWithTarball" \in Invoked
        /\ Succeeded("installWithTarball") =>
              /\ last.ret = <<TRUE, <<"Successfully installed in R/">> \o last.r_version
                                       \o <<" with tarball">> >>
              /\ "installBiocManager" \notin Invoked

\* C5 (exhaustion aggregation): an ordinary call in which no strategy
\* succeeded returns [False, message] with a non-empty message.
C5_ExhaustionAggregation ==
    (OrdinaryCall /\ Invoked # {} /\ \A fn \in Strategies : ~Succeeded(fn)) =>
        /\ last.exc = NoExc
        /\ last.ret[1] = FALSE
        /\ last.ret[2] # << >>

\* devtools::install_github ran and exited 0 in the latest call
DevtoolsExitedZero ==
    \E i \in DOMAIN trace :
        /\ trace[i].fn = "runRcmd"
        /\ trace[i].ev = "devtools::install_github"
        /\ trace[i].success

\* C6 (repository-hosted fallback tool): in a call with a repository locator
\* in which remotes ran and the call did not succeed through it, devtools is
\* tried, and when devtools exits 0 and the package is installed afterwards
\* the call returns success with the message naming devtools.
C6_GitHubFallbackTool ==
    (CallMade /\ Truthy(last.gitRepo) /\ Ran("remotes::install_github")
        /\ ~(last.exc = NoExc /\ last.ret[1]
               /\ last.ret[2] = <<"Successfully installed in R/">> \o last.r_version
                                   \o <<" with GitHub ", "remotes">>)) =>
        /\ last.exc = NoExc
        /\ Ran("devtools::install_github")
        /\ (DevtoolsExitedZero /\ last.isInstalled) =>
              last.ret = <<TRUE, <<"Successfully installed in R/">> \o last.r_version
                                    \o <<" with GitHub ", "devtools">> >>

\* the inventory of version v as savePackageList wrote it
Inventory(v) == Range(files[v \o <<".txt">>])

\* C7 (diff correctness): the diff the migration computes is the set of the
\* names in the old inventory that are not in the new one.
C7_DiffCorrectness ==
    DiffFile \in DOMAIN files =>
        Range(files[DiffFile]) = Inventory(args.v_old) \ Inventory(args.v_new)

\* the positions in calls of the calls made from the given site
CallsFrom(site) == {i \in DOMAIN calls : calls[i][1] = site}

\* C8 (migration ordering and coverage): when a migration has run to its end,
\* every package of the old inventory that the new one lacks was passed to
\* installPackage by the sweep, and no sweep call was made before the calls
\* for all seeds and then for all version-control-hosted packages.
C8_MigrationCoverage ==
    /\ (args.migrate /\ pc \in {"adhoc", "done"}) =>
          \A p \in Inventory(args.v_old) \ Inventory(args.v_new) :
              \E i \in CallsFrom("sweep") : calls[i][2] = p
    /\ CallsFrom("sweep") # {} =>
          /\ Cardinality(CallsFrom("seed")) = Len(Seeds)
          /\ Cardinality(CallsFrom("git")) = Len(GitPkgs)
          /\ \A i \in CallsFrom("seed"), j \in CallsFrom("git") : i < j
          /\ \A j \in CallsFrom("git"), k \in CallsFrom("sweep") : j < k

\* C9 (failure containment): no installPackage call made by a migration ends
\* in an unhandled exception.
C9_FailureContainment ==
    (CallMade /\ last.site \in {"seed", "git", "sweep"}) => last.exc = NoExc

\* C10 (strategy result shape): every strategy invoked returns a pair
\* (success, message) whose message is not empty.
C10_StrategyResultShape ==
    \A i \in DOMAIN trace :
        (trace[i].fn \in Strategies /\ trace[i].ev = "call") =>
            \E j \in DOMAIN trace :
                /\ j > i
                /\ trace[j].fn = trace[i].fn
                /\ trace[j].ev = "return"
                /\ trace[j].msg # << >>

\* the latest installPackage call invoked a strategy and did not end in success
AttemptFailed == CallMade /\ Invoked # {} /\ ~(last.exc = NoExc /\ last.ret[1])

\* C11 (durable failure memory): once installPackage has failed for a package
\* after trying its strategies, the working directory is such that a later
\* run, with the package still not installed, finds hadFailed(package) true.
C11_DurableFailureMemory ==
    (AttemptFailed /\ ~last.isInstalled) => hadFailed(World, last.package).ret

\* the outcome files of the day and the number of lines a file holds
SuccessLog == <<"success", "_", Today, ".txt">>
FailedLog == <<"failed", "_", Today, ".txt">>
LineCount(fs, name) == IF name \in DOMAIN fs THEN Len(fs[name]) ELSE 0

\* C12 (outcome log completeness): a step that makes an installPackage call
\* appends exactly one line to the outcome log when the call invoked a
\* strategy (to the success file when it succeeded, to the failed file when
\* it did not) and appends nothing when the call was short-circuited.
C12_OutcomeLogCompleteness ==
    [][ calls' # calls =>
          LET attempted == Invoked' # {}
              succeeded == last'.exc = NoExc /\ last'.ret[1]
          IN  /\ LineCount(files', SuccessLog) =
                    LineCount(files, SuccessLog) + (IF attempted /\ succeeded THEN 1 ELSE 0)
              /\ LineCount(files', FailedLog) =
                    LineCount(files, FailedLog) + (IF attempted /\ ~succeeded THEN 1 ELSE 0)
      ]_vars

\* the latest call was for a package that was not installed, had no
\* repository locator and was not blocked by the ledger
SpecializedCase(package) ==
    /\ CallMade
    /\ last.package = package
    /\ ~last.wasInstalled
    /\ ~Truthy(last.gitRepo)
    /\ ~(last.check_pastFail /\ last.inLedger)

\* C13 as claimed: installPackage("4.5.0", "drieslab/Giotto_pkg") goes to
\* installGiotto and to no strategy of the ordinary chain.
C13_GiottoPkgScenario == SpecializedCase(GiottoPkg) => Invoked = {"installGiotto"}

\* C13 (specialized suffix, amended): installPackage("4.5.0",
\* "drieslab/Giotto"), whose name ends in "/Giotto", goes to installGiotto
\* and invokes none of installWithRscript, installWithTarball and
\* installBiocManager.
C13_GiottoScenario == SpecializedCase(Giotto) => Invoked = {"installGiotto"}

\* C13 witness: such a call of drieslab/Giotto has invoked installGiotto
C13_Witness == SpecializedCase(Giotto) /\ "installGiotto" \in Invoked

\* the latest call passed the installed check and the ledger check
PassedChecks ==
    /\ CallMade
    /\ ~last.wasInstalled
    /\ ~(last.exc = NoExc /\ last.ret = <<FALSE, << >> >>)

\* the strategies of the path the arguments of the latest call select
PathOfCall ==
    IF Truthy(last.gitRepo) THEN {"installFromGitHub"}
    ELSE IF endswith(last.package, <<"/", "Giotto">>) THEN {"installGiotto"}
    ELSE {"installWithRscript", "installWithTarball", "installBiocManager"}

\* C14 (exactly one dispatch path): a call that passes both checks invokes
\* strategies of the one path its arguments select and of no other, also
\* when the repository-hosted or the specialized install fails.
C14_OneDispatchPath == PassedChecks => (Invoked # {} /\ Invoked \subseteq PathOfCall)

\* C14 witness: a repository-hosted install failed and nothing else was tried
C14_Witness ==
    /\ PassedChecks
    /\ Truthy(last.gitRepo)
    /\ last.exc # NoExc
    /\ Invoked = {"installFromGitHub"}

\* the positions in the trace where Rscript ran an installer
InstallerRuns ==
    {i \in DOMAIN trace :
        /\ trace[i].fn = "runRcmd"
        /\ trace[i].ev \notin {"requireNamespace", "download.packages"}}

\* a strategy reports success only right after a probe whose namespace check
\* exited 0, with the package installed
SuccessIsProbed ==
    \A i \in DOMAIN trace :
        (trace[i].fn \in Strategies /\ trace[i].ev = "return" /\ trace[i].success) =>
            /\ i > 1
            /\ trace[i - 1].fn = "runRcmd"
            /\ trace[i - 1].ev = "requireNamespace"
            /\ trace[i - 1].success
            /\ last.isInstalled

\* when the last installer run of the call exited 0 and the package is not
\* installed, the strategy returned a failure
UnconfirmedIsFailure ==
    \A i \in InstallerRuns :
        (trace[i].success /\ ~last.isInstalled /\ \A j \in InstallerRuns : j <= i) =>
            \E j \in DOMAIN trace :
                /\ j > i
                /\ trace[j].fn \in Strategies
                /\ trace[j].ev = "return"
                /\ ~trace[j].success

\* C15 (probe-confirmed success): no strategy reports success unless the
\* probe, evaluated after its external action, was true; and an external tool
\* exiting 0 while the probe is negative yields a failure result.
C15_ProbeConfirmedSuccess == SuccessIsProbed /\ UnconfirmedIsFailure

\* the packages the ledgers of this model name, exactly or inside a longer name
LedgerNames == {Survival, <<"survival", "ROC">>, <<"multicross">>, Ggplot2}

\* C16 (ledger lookup matching): when fail.txt exists, hadFailed(P) is true
\* if and only if some line of the ledger, wherever it is in the file, has
\* content up to its first ":" exactly equal to P; a line of another package
\* that contains P as a substring neither makes the lookup true nor hides a
\* later exact entry.
C16_LedgerLookupMatching ==
    LedgerFile \in DOMAIN files =>
        \A P \in LedgerNames :
            LET r == hadFailed(World, P)
            IN  /\ r.exc = NoExc
                /\ r.ret <=> \E i \in DOMAIN files[LedgerFile] :
                                  cutField1(files[LedgerFile][i]) = P

\* the line of missing.txt the sweep is at, as line 242 leaves it
SweptLine == replaceMarker(replaceNewline(files[DiffFile][idx] \o <<"\n">>))

\* C17 (sweep filtering): the sweep processes every line of the persisted
\* diff: a line beginning with "<" or a numeric line is skipped with no
\* install attempt, every other line gives exactly one installPackage call
\* for the new environment with the ledger check enabled and no repository
\* locator, in file order, and the sweep goes on to the end of the file, empty
\* lines included.
C17_SweepFiltering ==
    [][ pc = "sweep" =>
          /\ pc' # "crashed"
          /\ idx' = idx + 1
          /\ SweptLine # << >> =>
                IF startswith(SweptLine, <<"<">>) \/ SweptLine[1] \in DigitLeading
                THEN calls' = calls
                ELSE /\ calls' = Append(calls, <<"sweep", SweptLine>>)
                     /\ last'.r_version = args.v_new
                     /\ last'.check_pastFail
                     /\ last'.gitRepo = None
      ]_vars

\* where in the latest call strategy fn was invoked, and where it reported
\* failure
InvokedAt(fn) == {i \in DOMAIN trace : trace[i].fn = fn /\ trace[i].ev = "call"}
FailedAt(fn) ==
    {i \in DOMAIN trace : trace[i].fn = fn /\ trace[i].ev = "return" /\ ~trace[i].success}

\* C18 (ordinary chain order): within one installPackage call each of
\* direct-install, source-archive install and managed-repository install is
\* invoked at most once; source-archive install only after direct-install
\* reported failure in the call, managed-repository install only after both
\* reported failure; no strategy is invoked after one reported success.
C18_OrdinaryChainOrder ==
    /\ \A fn \in {"installWithRscript", "installWithTarball", "installBiocManager"} :
          Cardinality(InvokedAt(fn)) <= 1
    /\ \A i \in InvokedAt("installWithTarball") :
          \E j \in FailedAt("installWithRscript") : j < i
    /\ \A i \in InvokedAt("installBiocManager") :
          /\ \E j \in FailedAt("installWithRscript") : j < i
          /\ \E j \in FailedAt("installWithTarball") : j < i
    /\ \A i \in DOMAIN trace :
          (trace[i].fn \in Strategies /\ trace[i].ev = "return" /\ trace[i].success) =>
              \A j \in DOMAIN trace :
                  (j > i) => ~(trace[j].fn \in Strategies /\ trace[j].ev = "call")

\* an ordinary call whose direct-install succeeded, and nothing was invoked
\* after it
C18_Witness ==
    /\ OrdinaryCall
    /\ Succeeded("installWithRscript")
    /\ Invoked = {"installWithRscript"}
    /\ last.exc = NoExc

\* the runtime invocations among the events e
RuntimeRuns(e) == {i \in DOMAIN e : e[i].fn = "runRcmd"}

\* C19 (probe conjunction): isInstalled(environment, package) returns true
\* if and only if the package directory exists under the environment's
\* library root and the namespace-load check run in that environment exits
\* with 0; it makes exactly one runtime invocation per call, also when the
\* directory is absent, and a failed load yields false with no retry.
C19_ProbeConjunction ==
    /\ \A v \in Versions : \A p \in {Survival, Ggplot2, Giotto} :
          LET r == isInstalled(Fresh, v, p)
              e == r.w.trace
          IN  /\ r.exc = NoExc
              /\ Len(e) = 1
              /\ e[1].fn = "runRcmd"
              /\ e[1].ev = "requireNamespace"
              /\ e[1].success <=> p \in load[v]
              /\ r.ret <=> (p \in lib[v] /\ e[1].success)
              /\ r.w = [Fresh EXCEPT !.trace = e]
    /\ CallMade =>
          /\ trace[1].fn = "runRcmd"
          /\ trace[1].ev = "requireNamespace"
          /\ last.wasInstalled => (trace[1].success /\ Cardinality(RuntimeRuns(trace)) = 1)

\* a call whose probe found the namespace loading and the directory absent,
\* and a call whose probe found the directory with the namespace not loading
C19_Witness ==
    /\ CallMade
    /\ ~last.wasInstalled
    /\ trace[1].success
    /\ \E v \in Versions : Survival \in lib[v] /\ ~isInstalled(Fresh, v, Survival).ret

\* the latest call had a repository locator and a package with the
\* specialized suffix, and passed both checks
LocatedGiottoCall ==
    /\ CallMade
    /\ Truthy(last.gitRepo)
    /\ endswith(last.package, <<"/", "Giotto">>)
    /\ ~last.wasInstalled
    /\ ~(last.check_pastFail /\ last.inLedger)

\* C20 (locator precedence): a call with a repository locator for a package
\* whose name ends in "/Giotto" takes the repository-hosted path and never
\* invokes installGiotto; installGiotto is invoked only in calls without a
\* repository locator.
C20_LocatorPrecedence ==
    /\ LocatedGiottoCall => Invoked = {"installFromGitHub"}
    /\ (CallMade /\ "installGiotto" \in Invoked) => ~Truthy(last.gitRepo)

C20_Witness == LocatedGiottoCall /\ "installFromGitHub" \in Invoked /\ last.site = "adhoc"
====
